---------------------------- MODULE Spec2Model ----------------------------
(***************************************************************************)
(* NuDB core engine: the arena allocator (detail/arena.hpp), the bucket    *)
(* cache (detail/cache.hpp) and the store protocol built on them           *)
(* (insert / fetch / split / commit / recover).                            *)
(*                                                                         *)
(* Memory is modelled explicitly: every arena element has an identity, a   *)
(* capacity and a bump cursor; a pointer is an (element, offset) pair; a   *)
(* blob is what is stored at a pointer.  Element identities are never      *)
(* reused, so a pointer into a released element stays recognisable.        *)
(***************************************************************************)
EXTENDS Integers, Sequences, FiniteSets, TLC

\* ------------------------------------------------------------------ bounds
MaxElems == 2        \* elements ever created by operator new[] in one run
MaxNalloc == 16      \* cap on the arena byte counter nalloc_
MaxTime == 2         \* clock readings 0..MaxTime (in ticks)
MaxReq == 12         \* largest request size handed to arena alloc
MaxCacheElems == 3   \* elements ever created in a cache-level run
MaxBlobs == 12       \* elements ever created by one process of a store run
MaxTickTime == 10    \* clock readings 0..MaxTickTime of the periodic runs
MaxTickNalloc == 24  \* cap on nalloc_ in the periodic runs
MaxEvictElems == 2   \* elements ever created in a cache run with periodic activity
MaxEvictNalloc == 96 \* cap on nalloc_ in a cache run with periodic activity
MaxLifeElems == 1    \* elements ever created in a lifetime run
MaxLifeTime == 4     \* clock readings 0..MaxLifeTime of the lifetime runs
MaxLifeNalloc == 16  \* cap on nalloc_ in the lifetime runs
MaxLifeAllocs == 3   \* cap on the serial number of a region in the lifetime runs

\* clock ticks per second: a call of periodic_activity sees elapsed < 1 s
\* when fewer than TicksPerSec ticks have passed
TicksPerSec == 2

\* configuration of the two caches of a store (block size scaled down)
KeySize == 8
BlockSize == 48

\* store configuration: load factor LoadNum / LoadDen, and the hash of each key
\* (keys are 1 .. Len(KeyHash); keys 1 and 3 collide on the full hash)
LoadNum == 1
LoadDen == 4
KeyHash == <<0, 4, 0, 2>>
Keys == 1 .. Len(KeyHash)

Caches == {0, 1}                 \* 0 is p0 (being flushed), 1 is p1 (write cache)
Other(c) == 1 - c
ReqSizes == {1, MaxReq}          \* request sizes of the arena-level runs
Indices == 0 .. 2                \* bucket indices of the cache-level runs

NullPtr == [e |-> 0, off |-> 0]

VARIABLES
    elem,      \* Seq of [capacity, used, alive]: every element ever created
    cache,     \* cache[c] = [key_size, block_size, arena, map]
    blob,      \* contents stored at a pointer (a serialized bucket)
    regions,   \* regions handed out by alloc and not yet cleared
    now,       \* steady clock
    ret,       \* what the last cache / arena call returned
    st,        \* store state record: buckets, modulus, items
    data,      \* data file records, the data writer's buffered tail included
    dlen,      \* number of records that are in the data file on disk
    key,       \* key file: the buckets on disk, bucket n at key[n + 1]
    log,       \* log file: header fields and bucket pre-images
    pc,        \* position of the commit worker
    wk,        \* locals of the commit worker
    mode,      \* open, closing, closed, crashed, recovering, recovered
    rpc,       \* position of recover
    hist,      \* bookkeeping of the run: acknowledged and committed inserts
    res,       \* what the last store call returned
    ecode,     \* the store's async-error slot
    pa         \* a periodic_activity call under way: position, lock, elapsed time

memvars == <<elem, cache, blob, regions>>
filevars == <<data, dlen, key, log>>
storevars == <<st, data, dlen, key, log, pc, wk, mode, rpc, hist, res, ecode>>
vars == <<elem, cache, blob, regions, now, ret, st, data, dlen, key, log, pc, wk,
          mode, rpc, hist, res, ecode, pa>>

\* ------------------------------------------------------------------ helpers
Max(a, b) == IF a >= b THEN a ELSE b

RECURSIVE Reverse(_)
Reverse(q) == IF q = <<>> THEN <<>> ELSE Append(Reverse(Tail(q)), Head(q))

RECURSIVE SelectSeqBy(_, _)
\* the subsequence of q whose members are in the set S
SelectSeqBy(q, S) ==
    IF q = <<>> THEN <<>>
    ELSE IF Head(q) \in S THEN <<Head(q)>> \o SelectSeqBy(Tail(q), S)
    ELSE SelectSeqBy(Tail(q), S)

SeqSet(q) == {q[j] : j \in 1 .. Len(q)}

\* the memory state the operators below transform
Mem == [elem |-> elem, cache |-> cache, blob |-> blob, regions |-> regions]

SetMem(s) ==
    /\ elem' = s.elem
    /\ cache' = s.cache
    /\ blob' = s.blob
    /\ regions' = s.regions

\* ------------------------------------------------------------------ buckets
\* A bucket blob: the spill pointer (a data file offset, 0 for none) and the
\* entries (hash h, data file offset off), sorted by hash.
EmptyBucket == [spill |-> 0, ents |-> <<>>]

\* what a read through a pointer into released or never written memory yields
Garbage == [spill |-> 0 - 1, ents |-> <<>>]

\* bucket arguments of the cache-level runs
SampleBuckets == {EmptyBucket,
                  [spill |-> 0, ents |-> <<[h |-> 0, off |-> 1]>>],
                  [spill |-> 2, ents |-> <<[h |-> 4, off |-> 3]>>]}

\* ------------------------------------------------------------------ arena
\* std::size_t, scaled from 64 to SizeBits bits: values wrap at SizeMod
SizeBits == 16
SizeMod == 2 ^ SizeBits

\* sizeof(element): capacity_, used_ and next
ElementHeader == 24

\* the bytes behind the header of an element of capacity n that
\* new std::uint8_t[sizeof(element) + n] provides
BufferRoom(n) == ((ElementHeader + n) % SizeMod) - ElementHeader

\* arena_t data members, as default constructed at clock reading t
NewArena(t) == [allocSize |-> 0, nalloc |-> 0, used |-> <<>>, free |-> <<>>, when |-> t]

\* element::remain
Remain(s, e) == s.elem[e].capacity - s.elem[e].used

\* a variant of element::alloc that forgets to bump the cursor
ElementAllocNoBump(s, e, n) ==
    IF n > s.elem[e].capacity - s.elem[e].used
    THEN [s |-> s, p |-> NullPtr]
    ELSE [s |-> s, p |-> [e |-> e, off |-> s.elem[e].used]]

\* element::alloc: bump the cursor, or nullptr when n does not fit
ElementAlloc(s, e, n) ==
    IF n > s.elem[e].capacity - s.elem[e].used
    THEN [s |-> s, p |-> NullPtr]
    ELSE [s |-> [s EXCEPT !.elem[e].used = @ + n],
          p |-> [e |-> e, off |-> s.elem[e].used]]

\* a request size left as it is
Round8Not(n) == n

\* n = 8 * ((n + 7) / 8) in std::size_t arithmetic
Round8(n) == (8 * (((n + 7) % SizeMod) \div 8)) % SizeMod

NextSerial(R) == IF R = {} THEN 1 ELSE 1 + CHOOSE x \in {r.id : r \in R} :
                                              \A r \in R : r.id <= x

\* the region a successful alloc hands to its caller
NoteRegion(s, p, n) ==
    IF p = NullPtr \/ n = 0 THEN s
    ELSE [s EXCEPT !.regions = @ \cup
            {[id |-> NextSerial(s.regions), e |-> p.e, off |-> p.off, len |-> n]}]

\* arena_t::dealloc(list): release every element of a list
Dealloc(s, list) ==
    [s EXCEPT !.elem = [e \in DOMAIN s.elem |->
                            IF e \in SeqSet(list)
                            THEN [s.elem[e] EXCEPT !.alive = FALSE]
                            ELSE s.elem[e]],
              !.blob = [p \in {q \in DOMAIN s.blob : q.e \notin SeqSet(list)} |-> s.blob[p]]]

\* a variant of alloc that never takes an element from the free list
ArenaAllocNoReuse(s, c, n) ==
    LET a == s.cache[c].arena
        m == Round8(n)
    IN  IF a.used # <<>> /\ Remain(s, Head(a.used)) >= m
        THEN LET s1 == [s EXCEPT !.cache[c].arena.nalloc = @ + m]
                 r == ElementAlloc(s1, Head(a.used), m)
             IN  [s |-> NoteRegion(r.s, r.p, m), p |-> r.p]
        ELSE LET size == Max(a.allocSize, m)
                 e == Len(s.elem) + 1
                 s1 == [s EXCEPT !.elem = Append(@, [capacity |-> size, used |-> 0,
                                                      alive |-> TRUE]),
                                 !.cache[c].arena.used = <<e>> \o a.used,
                                 !.cache[c].arena.nalloc = @ + m]
                 r == ElementAlloc(s1, e, m)
             IN  [s |-> NoteRegion(r.s, r.p, m), p |-> r.p]

\* arena_t::alloc, n is the caller's request
ArenaAlloc(s, c, n) ==
    LET a == s.cache[c].arena
        m == Round8(n)
    IN  IF a.used # <<>> /\ Remain(s, Head(a.used)) >= m
        THEN LET s1 == [s EXCEPT !.cache[c].arena.nalloc = @ + m]
                 r == ElementAlloc(s1, Head(a.used), m)
             IN  [s |-> NoteRegion(r.s, r.p, m), p |-> r.p]
        ELSE IF a.free # <<>> /\ Remain(s, Head(a.free)) >= m
        THEN LET e == Head(a.free)
                 s1 == [s EXCEPT !.cache[c].arena.free = Tail(a.free),
                                 !.cache[c].arena.used = <<e>> \o a.used,
                                 !.cache[c].arena.nalloc = @ + m]
                 r == ElementAlloc(s1, e, m)
             IN  [s |-> NoteRegion(r.s, r.p, m), p |-> r.p]
        ELSE LET size == Max(a.allocSize, m)
                 e == Len(s.elem) + 1
                 s1 == [s EXCEPT !.elem = Append(@, [capacity |-> size, used |-> 0,
                                                      alive |-> TRUE]),
                                 !.cache[c].arena.used = <<e>> \o a.used,
                                 !.cache[c].arena.nalloc = @ + m]
                 r == ElementAlloc(s1, e, m)
             IN  [s |-> NoteRegion(r.s, r.p, m), p |-> r.p]

\* does alloc(n) on arena c call operator new[] ?
NeedsNew(s, c, n) ==
    LET a == s.cache[c].arena
        m == Round8(n)
    IN  /\ ~(a.used # <<>> /\ Remain(s, Head(a.used)) >= m)
        /\ ~(a.free # <<>> /\ Remain(s, Head(a.free)) >= m)

\* a variant of clear that keeps every used element on the free list
ArenaClearKeepsAll(s, c) ==
    LET a == s.cache[c].arena
    IN  [s EXCEPT !.elem = [e \in DOMAIN s.elem |->
                               IF e \in SeqSet(a.used)
                               THEN [s.elem[e] EXCEPT !.used = 0]
                               ELSE s.elem[e]],
                  !.cache[c].arena.used = <<>>,
                  !.cache[c].arena.free = Reverse(a.used) \o a.free,
                  !.blob = [p \in {q \in DOMAIN s.blob : q.e \notin SeqSet(a.used)}
                              |-> s.blob[p]],
                  !.regions = {r \in @ : r.e \notin SeqSet(a.used)}]

\* arena_t::clear: every used element is reset, then kept on the free list
\* when its capacity is the current allocSize_, released otherwise
ArenaClear(s, c) ==
    LET a == s.cache[c].arena
        keep == {e \in SeqSet(a.used) : s.elem[e].capacity = a.allocSize}
        drop == SelectSeqBy(a.used, SeqSet(a.used) \ keep)
        s1 == [s EXCEPT !.elem = [e \in DOMAIN s.elem |->
                                     IF e \in SeqSet(a.used)
                                     THEN [s.elem[e] EXCEPT !.used = 0]
                                     ELSE s.elem[e]],
                        !.cache[c].arena.used = <<>>,
                        !.cache[c].arena.free = Reverse(SelectSeqBy(a.used, keep)) \o a.free,
                        !.blob = [p \in {q \in DOMAIN s.blob : q.e \notin SeqSet(a.used)}
                                    |-> s.blob[p]],
                        !.regions = {r \in @ : r.e \notin SeqSet(a.used)}]
    IN  Dealloc(s1, drop)

\* a variant of shrink_to_fit that releases the used list
ArenaShrinkUsed(s, c) ==
    [Dealloc(s, s.cache[c].arena.used) EXCEPT !.cache[c].arena.used = <<>>]

\* a variant of shrink_to_fit whose dealloc takes the list head by value
ArenaShrinkDangling(s, c) == Dealloc(s, s.cache[c].arena.free)

\* arena_t::shrink_to_fit: dealloc(free_)
ArenaShrinkToFit(s, c) ==
    [Dealloc(s, s.cache[c].arena.free) EXCEPT !.cache[c].arena.free = <<>>]

\* rate = ceil(nalloc_ / elapsed seconds), elapsed in ticks
Rate(nalloc, elapsed) == (nalloc * TicksPerSec + elapsed - 1) \div elapsed

\* periodic_activity, first part: when_ = now
PeriodicStamp(s, c, t) == [s EXCEPT !.cache[c].arena.when = t]

\* a variant of adjust up that doubles allocSize_
AdjustUpDoubles(s, c, rate) ==
    LET a == s.cache[c].arena
    IN  [Dealloc(s, a.free) EXCEPT
            !.cache[c].arena.allocSize = a.allocSize * 2,
            !.cache[c].arena.free = <<>>]

\* periodic_activity, adjust up: allocSize_ = max(rate, allocSize_ * 2), dealloc(free_)
AdjustUp(s, c, rate) ==
    LET a == s.cache[c].arena
    IN  [Dealloc(s, a.free) EXCEPT
            !.cache[c].arena.allocSize = Max(rate, a.allocSize * 2),
            !.cache[c].arena.free = <<>>]

\* a variant of adjust down that leaves the free list alone
AdjustDownKeepsFree(s, c) ==
    [s EXCEPT !.cache[c].arena.allocSize = @ \div 2]

\* periodic_activity, adjust down: allocSize_ /= 2, dealloc(free_)
AdjustDown(s, c) ==
    LET a == s.cache[c].arena
    IN  [Dealloc(s, a.free) EXCEPT
            !.cache[c].arena.allocSize = a.allocSize \div 2,
            !.cache[c].arena.free = <<>>]

\* the branch periodic_activity takes
Branch(rate, allocSize) ==
    IF rate >= allocSize * 2 THEN "up"
    ELSE IF rate <= allocSize \div 2 THEN "down"
    ELSE "keep"

\* a variant of the second part that leaves nalloc_ as it is
PeriodicAdjustKeepsCount(s, c, elapsed) ==
    LET a == s.cache[c].arena
        rate == Rate(a.nalloc, elapsed)
    IN  IF Branch(rate, a.allocSize) = "up" THEN AdjustUp(s, c, rate)
        ELSE IF Branch(rate, a.allocSize) = "down" THEN AdjustDown(s, c)
        ELSE s

\* periodic_activity, second part (under the lock): the rate over the elapsed
\* time, adjust up, adjust down or keep, nalloc_ = 0
PeriodicAdjust(s, c, elapsed) ==
    LET a == s.cache[c].arena
        rate == Rate(a.nalloc, elapsed)
        s1 == IF Branch(rate, a.allocSize) = "up" THEN AdjustUp(s, c, rate)
              ELSE IF Branch(rate, a.allocSize) = "down" THEN AdjustDown(s, c)
              ELSE s
    IN  [s1 EXCEPT !.cache[c].arena.nalloc = 0]

\* arena_t::periodic_activity at clock reading t
ArenaPeriodic(s, c, t) ==
    IF t - s.cache[c].arena.when < TicksPerSec THEN s
    ELSE PeriodicAdjust(PeriodicStamp(s, c, t), c, t - s.cache[c].arena.when)

\* a variant of swap(arena_t&, arena_t&) that leaves the used lists in place
ArenaSwapCountersOnly(s, l, r) ==
    [s EXCEPT !.cache[l].arena.nalloc = s.cache[r].arena.nalloc,
              !.cache[r].arena.nalloc = s.cache[l].arena.nalloc]

\* a variant of swap(arena_t&, arena_t&) that swaps free_ as well
ArenaSwapWithFree(s, l, r) ==
    [s EXCEPT !.cache[l].arena.nalloc = s.cache[r].arena.nalloc,
              !.cache[r].arena.nalloc = s.cache[l].arena.nalloc,
              !.cache[l].arena.used = s.cache[r].arena.used,
              !.cache[r].arena.used = s.cache[l].arena.used,
              !.cache[l].arena.free = s.cache[r].arena.free,
              !.cache[r].arena.free = s.cache[l].arena.free]

\* swap(arena_t&, arena_t&): nalloc_ and used_ only
ArenaSwap(s, l, r) ==
    [s EXCEPT !.cache[l].arena.nalloc = s.cache[r].arena.nalloc,
              !.cache[r].arena.nalloc = s.cache[l].arena.nalloc,
              !.cache[l].arena.used = s.cache[r].arena.used,
              !.cache[r].arena.used = s.cache[l].arena.used]

\* a variant of the move constructor that leaves other's lists as they are
ArenaMoveCopies(s, l, r, t) ==
    [s EXCEPT !.cache[r].arena = s.cache[l].arena,
              !.cache[l].arena.nalloc = 0,
              !.cache[l].arena.when = t,
              !.cache[l].arena.allocSize = 0]

\* arena_t(arena_t&& other) at clock reading t: the arena constructed in place
\* r takes the five members of l, and l is left empty with when_ = now
ArenaMove(s, l, r, t) ==
    [s EXCEPT !.cache[r].arena = s.cache[l].arena,
              !.cache[l].arena = NewArena(t)]

\* ~arena_t: dealloc(used_), dealloc(free_); the regions handed out of the
\* used elements end with them
ArenaDestroy(s, c) ==
    LET a == s.cache[c].arena
        s1 == Dealloc(Dealloc(s, a.used), a.free)
    IN  [s1 EXCEPT !.cache[c].arena.used = <<>>,
                   !.cache[c].arena.free = <<>>,
                   !.regions = {r \in @ : r.e \notin SeqSet(a.used)}]

\* ------------------------------------------------------------------ cache
\* cache_t(key_size, block_size) constructed at clock reading t
NewCache(t) == [key_size |-> KeySize, block_size |-> BlockSize,
                arena |-> NewArena(t), map |-> <<>>]

\* the map is a function from the indices present to blob pointers
Present(s, c, n) == n \in DOMAIN s.cache[c].map

\* unordered_map::emplace: no effect when the key is present
Emplace(map, n, p) ==
    IF n \in DOMAIN map THEN map
    ELSE [j \in DOMAIN map \cup {n} |-> IF j = n THEN p ELSE map[j]]

\* a store through a pointer
Poke(s, p, b) ==
    [s EXCEPT !.blob = [q \in DOMAIN s.blob \cup {p} |-> IF q = p THEN b ELSE s.blob[q]]]

\* a load through a pointer
Deref(s, p) == IF p \in DOMAIN s.blob THEN s.blob[p] ELSE Garbage

\* cache_t::find: the pointer stored under n, NullPtr for end()
CacheFind(s, c, n) == IF Present(s, c, n) THEN s.cache[c].map[n] ELSE NullPtr

\* cache_t::create after its alloc returned r: memset, emplace
CreateAt(r, c, n) ==
    [s |-> Poke([r.s EXCEPT !.cache[c].map = Emplace(@, n, r.p)], r.p, EmptyBucket),
     p |-> r.p]

\* cache_t::create: returns the view of the blob it allocated
CacheCreate(s, c, n) == CreateAt(ArenaAlloc(s, c, s.cache[c].block_size), c, n)

\* cache_t::insert after its alloc returned r: write b to the blob, emplace
InsertAt(r, c, n, b) ==
    [s |-> [Poke(r.s, r.p, b) EXCEPT !.cache[c].map = Emplace(@, n, r.p)],
     p |-> Emplace(r.s.cache[c].map, n, r.p)[n],
     q |-> r.p]

\* cache_t::insert: returns the iterator emplace returned (result.first)
CacheInsert(s, c, n, b) == InsertAt(ArenaAlloc(s, c, s.cache[c].block_size), c, n, b)

\* cache_t::clear
CacheClear(s, c) == [ArenaClear(s, c) EXCEPT !.cache[c].map = <<>>]

\* a variant of shrink_to_fit that also empties the map
CacheShrinkDropsMap(s, c) == [ArenaShrinkToFit(s, c) EXCEPT !.cache[c].map = <<>>]

\* cache_t::shrink_to_fit
CacheShrinkToFit(s, c) == ArenaShrinkToFit(s, c)

\* a variant of swap(cache_t&, cache_t&) that leaves the arenas as they are
CacheSwapMapsOnly(s, l, r) ==
    [s EXCEPT !.cache[l].key_size = s.cache[r].key_size,
              !.cache[r].key_size = s.cache[l].key_size,
              !.cache[l].block_size = s.cache[r].block_size,
              !.cache[r].block_size = s.cache[l].block_size,
              !.cache[l].map = s.cache[r].map,
              !.cache[r].map = s.cache[l].map]

\* swap(cache_t&, cache_t&)
CacheSwap(s, l, r) ==
    LET s1 == ArenaSwap(s, l, r)
    IN  [s1 EXCEPT !.cache[l].key_size = s.cache[r].key_size,
                   !.cache[r].key_size = s.cache[l].key_size,
                   !.cache[l].block_size = s.cache[r].block_size,
                   !.cache[r].block_size = s.cache[l].block_size,
                   !.cache[l].map = s.cache[r].map,
                   !.cache[r].map = s.cache[l].map]


\* ------------------------------------------------------------------ initial state
NoRet == [op |-> "none", c |-> 0, n |-> 0, p |-> NullPtr, q |-> NullPtr, b |-> EmptyBucket]
Ret(op, c, n, p, q, b) == [op |-> op, c |-> c, n |-> n, p |-> p, q |-> q, b |-> b]

NoLog == [hdr |-> FALSE, dsize |-> 0, ksize |-> 0, pre |-> {}]
NoWork == [dsnap |-> 0, dbefore |-> 0, kbefore |-> 0, bafter |-> 0, todo |-> {}]
NoRes == [op |-> "none", r |-> "none", dup |-> FALSE, wrote |-> FALSE]
NoFiles == [data |-> <<>>, key |-> <<>>, log |-> NoLog]
NoHist == [ok |-> <<>>, committed |-> {}, flushing |-> {}, atcrash |-> NoFiles,
           dirty |-> {}, pre |-> NoFiles]

\* no periodic_activity call is under way
NoCall == [pc |-> "out", owns |-> FALSE, elapsed |-> 0, bare |-> {}]

InitMem ==
    /\ elem = <<>>
    /\ cache = [c \in Caches |-> NewCache(0)]
    /\ blob = <<>>
    /\ regions = {}
    /\ now = 0
    /\ ret = NoRet

\* a database as create leaves it, opened: one empty bucket, empty log
InitStore ==
    /\ st = [buckets |-> 1, modulus |-> 1, items |-> 0]
    /\ data = <<>>
    /\ dlen = 0
    /\ key = <<EmptyBucket>>
    /\ log = NoLog
    /\ pc = "idle"
    /\ wk = NoWork
    /\ mode = "open"
    /\ rpc = "none"
    /\ hist = NoHist
    /\ res = NoRes
    /\ ecode = "none"
    /\ pa = NoCall

Init == InitMem /\ InitStore

\* ------------------------------------------------------------------ arena-level runs
\* The arena API driven directly, on the two arenas of the two caches.

Tick ==
    /\ now < MaxTime
    /\ now' = now + 1
    /\ UNCHANGED <<memvars, ret, pa, storevars>>

\* the call on arena c that the state is the outcome of, kept for shrink_to_fit
Called(op, c) == Ret(op, c, 0, NullPtr, NullPtr, EmptyBucket)

AAlloc(c, n) ==
    /\ n > 0
    /\ cache[c].arena.nalloc + Round8(n) <= MaxNalloc
    /\ NeedsNew(Mem, c, n) => Len(elem) < MaxElems
    /\ LET r == ArenaAlloc(Mem, c, n)
       IN  SetMem(r.s)
    /\ ret' = NoRet
    /\ UNCHANGED <<now, pa, storevars>>

\* alloc(0): BOOST_ASSERT(n != 0) ends the process in a build with assertions
\* (nothing is returned, the arena is as it was); a build without them goes on
\* with n = 0
AAllocZero(c) ==
    /\ NeedsNew(Mem, c, 0) => Len(elem) < MaxElems
    /\ \/ UNCHANGED memvars
       \/ SetMem(ArenaAlloc(Mem, c, 0).s)
    /\ ret' = NoRet
    /\ UNCHANGED <<now, pa, storevars>>

AClear(c) ==
    /\ SetMem(ArenaClear(Mem, c))
    /\ ret' = NoRet
    /\ UNCHANGED <<now, pa, storevars>>

AShrinkToFit(c) ==
    /\ SetMem(ArenaShrinkToFit(Mem, c))
    /\ ret' = Called("shrink_to_fit", c)
    /\ UNCHANGED <<now, pa, storevars>>

APeriodic(c) ==
    /\ SetMem(ArenaPeriodic(Mem, c, now))
    /\ ret' = NoRet
    /\ UNCHANGED <<now, pa, storevars>>

ASwap ==
    /\ SetMem(ArenaSwap(Mem, 0, 1))
    /\ ret' = NoRet
    /\ UNCHANGED <<now, pa, storevars>>

NextArena ==
    \/ Tick
    \/ \E c \in Caches, n \in ReqSizes : AAlloc(c, n)
    \/ \E c \in Caches : AClear(c)
    \/ \E c \in Caches : AShrinkToFit(c)
    \/ \E c \in Caches : APeriodic(c)
    \/ ASwap

SpecArena == Init /\ [][NextArena]_vars

\* the arena API driven also outside its contract: alloc(0)
NextZero ==
    \/ NextArena
    \/ \E c \in Caches : AAllocZero(c)

SpecZero == Init /\ [][NextZero]_vars

\* the used lists of all arenas
UsedElems == UNION {SeqSet(cache[c].arena.used) : c \in Caches}

RegionInside(r) ==
    /\ r.e \in DOMAIN elem
    /\ elem[r.e].alive
    /\ r.off >= 0
    /\ r.off + r.len <= elem[r.e].capacity
    /\ r.off + r.len <= elem[r.e].used
    /\ r.e \in UsedElems

Disjoint(r1, r2) ==
    \/ r1.e # r2.e
    \/ r1.off + r1.len <= r2.off
    \/ r2.off + r2.len <= r1.off

\* C5: a region returned by alloc(n), n > 0, stays valid and exclusively owned
\* until clear() of the arena holding it: it lies inside the capacity of one
\* live element that is on a used list, below that element's cursor (so no later
\* alloc can return its bytes), it overlaps no other region, and neither
\* shrink_to_fit nor periodic_activity nor swap releases or recycles its element.
C5_RegionsStayValid ==
    \A r \in regions :
        /\ RegionInside(r)
        /\ \A r2 \in regions : r2.id # r.id => Disjoint(r, r2)

\* two regions share one element of an arena whose byte counter is zero: a
\* periodic_activity tick (or a swap of the used lists) has run over them; and
\* some other element has been released by then
C5_Witness ==
    \E c \in Caches :
        /\ cache[c].arena.nalloc = 0
        /\ \E r1, r2 \in regions :
              r1.id # r2.id /\ r1.e = r2.e /\ r1.e \in SeqSet(cache[c].arena.used)
        /\ \E e \in DOMAIN elem : ~elem[e].alive

C13_AllocZeroRejected ==
    [][\A c \in Caches : AAllocZero(c) => UNCHANGED memvars]_vars

\* C14: every element's cursor and every region's offset is a multiple of 8
C14_Aligned ==
    /\ \A e \in DOMAIN elem : elem[e].used % 8 = 0
    /\ \A r \in regions : r.off % 8 = 0

\* a region that does not start its element: requests of 1 and of MaxReq bytes
\* have bumped the cursor before it
C14_Witness ==
    \E r \in regions : r.off > 0 /\ elem[r.e].used > r.off /\ r.len < elem[r.e].used

\* C20: shrink_to_fit releases the elements of the free list and nothing
\* else: the free list is empty afterwards; the used list, every other
\* element, alloc_size, the byte counter, the other arena and all regions are
\* as before
C20_ShrinkFreesFreeListOnly ==
    [][\A c \in Caches :
          AShrinkToFit(c) =>
              /\ cache'[c].arena = [cache[c].arena EXCEPT !.free = <<>>]
              /\ cache'[Other(c)] = cache[Other(c)]
              /\ \A e \in DOMAIN elem :
                     elem'[e] = IF e \in SeqSet(cache[c].arena.free)
                                THEN [elem[e] EXCEPT !.alive = FALSE]
                                ELSE elem[e]
              /\ regions' = regions
              /\ \A r \in regions : r.e \notin SeqSet(cache[c].arena.free)]_vars

\* shrink_to_fit has just run on an arena that holds regions and has released
\* an element that clear() had kept
C20_Witness ==
    /\ ret.op = "shrink_to_fit"
    /\ cache[ret.c].arena.free = <<>>
    /\ \E r \in regions : r.e \in SeqSet(cache[ret.c].arena.used)
    /\ \E e \in DOMAIN elem :
          ~elem[e].alive /\ elem[e].capacity = cache[ret.c].arena.allocSize


\* ------------------------------------------------------------------ runs with large requests
\* The arena API with requests up to the largest std::size_t.

BigSizes == {1, MaxReq, SizeMod - 8, SizeMod - 1}

BAlloc(c, n) ==
    /\ n > 0
    /\ cache[c].arena.nalloc + Round8(n) < SizeMod
    /\ NeedsNew(Mem, c, n) => Len(elem) < MaxElems
    /\ LET r == ArenaAlloc(Mem, c, n)
       IN  /\ SetMem(r.s)
           /\ ret' = Ret("alloc", c, n, r.p, NullPtr, EmptyBucket)
    /\ UNCHANGED <<now, pa, storevars>>

NextBig ==
    \/ \E c \in Caches, n \in BigSizes : BAlloc(c, n)
    \/ \E c \in Caches : AClear(c)
    \/ \E c \in Caches : AShrinkToFit(c)
    \/ ASwap

SpecBig == Init /\ [][NextBig]_vars

\* the region alloc has just returned is not null, has room for the n bytes
\* asked for and lies in the memory its element was given
ServedInFull ==
    /\ ret.p # NullPtr
    /\ \E r \in regions :
          /\ r.e = ret.p.e
          /\ r.off = ret.p.off
          /\ r.len >= ret.n
          /\ r.off + r.len <= BufferRoom(elem[r.e].capacity)

\* C21: for every n > 0 alloc(n) returns a non-null region of at least n
\* bytes, and no element's cursor exceeds its capacity
C21_NoSizeLimit ==
    /\ ret.op = "alloc" => ServedInFull
    /\ \A e \in DOMAIN elem : elem[e].used <= elem[e].capacity

\* what does hold: a request that, rounded up and with the element header
\* added, stays within std::size_t is served in full
ServedWithinWidth ==
    /\ (ret.op = "alloc" /\ ret.n + 7 + ElementHeader < SizeMod) => ServedInFull
    /\ \A e \in DOMAIN elem : elem[e].used <= elem[e].capacity

\* ------------------------------------------------------------------ periodic runs
\* One arena, the write cache's, with a thread that allocates and clears under
\* the mutex and a thread that calls periodic_activity(m).  The call is taken
\* in the steps of its code: the clock and when_ are read and when_ is written,
\* then the mutex is locked unless the caller owns it, then the rate is
\* computed and allocSize_ adjusted.

TickArena == 1

TTick ==
    /\ now < MaxTickTime
    /\ now' = now + 1
    /\ UNCHANGED <<memvars, ret, pa, storevars>>

\* alloc by the thread that owns the mutex: not while the periodic caller owns it
TAlloc(n) ==
    /\ ~pa.owns
    /\ cache[TickArena].arena.nalloc + Round8(n) <= MaxTickNalloc
    /\ NeedsNew(Mem, TickArena, n) => Len(elem) < MaxElems
    /\ SetMem(ArenaAlloc(Mem, TickArena, n).s)
    /\ ret' = NoRet
    /\ UNCHANGED <<now, pa, storevars>>

TClear ==
    /\ ~pa.owns
    /\ SetMem(ArenaClear(Mem, TickArena))
    /\ ret' = NoRet
    /\ UNCHANGED <<now, pa, storevars>>

\* the members a caller that does not own the mutex has touched so far
Touched(own, S) == IF own THEN {} ELSE S

\* periodic_activity(m), up to the lock: now, elapsed = now - when_, return when
\* less than a second has passed, when_ = now
TEnter(own) ==
    /\ pa.pc = "out"
    /\ LET elapsed == now - cache[TickArena].arena.when
       IN  IF elapsed < TicksPerSec
           THEN /\ pa' = [NoCall EXCEPT !.bare = Touched(own, {"when_ read"})]
                /\ UNCHANGED memvars
           ELSE /\ pa' = [pc |-> IF own THEN "locked" ELSE "stamped", owns |-> own,
                          elapsed |-> elapsed,
                          bare |-> Touched(own, {"when_ read", "when_ write"})]
                /\ SetMem(PeriodicStamp(Mem, TickArena, now))
    /\ ret' = NoRet
    /\ UNCHANGED <<now, storevars>>

\* if(! m.owns_lock()) m.lock()
TLock ==
    /\ pa.pc = "stamped"
    /\ pa' = [pa EXCEPT !.pc = "locked", !.owns = TRUE]
    /\ UNCHANGED <<memvars, now, ret, storevars>>

\* what the adjustment found and did: the rate, the branch, allocSize_ and the
\* length of the free list before it
Adjustment(s, c, elapsed) ==
    LET a == s.cache[c].arena
    IN  [op |-> "periodic_activity", c |-> c,
         rate |-> Rate(a.nalloc, elapsed),
         branch |-> Branch(Rate(a.nalloc, elapsed), a.allocSize),
         allocSize |-> a.allocSize, free |-> Len(a.free)]

\* the rest of periodic_activity; the caller leaves holding its lock object
TAdjust ==
    /\ pa.pc = "locked"
    /\ SetMem(PeriodicAdjust(Mem, TickArena, pa.elapsed))
    /\ ret' = Adjustment(Mem, TickArena, pa.elapsed)
    /\ pa' = [NoCall EXCEPT !.bare = pa.bare]
    /\ UNCHANGED <<now, storevars>>

NextTick ==
    \/ TTick
    \/ \E n \in ReqSizes : TAlloc(n)
    \/ TClear
    \/ \E own \in BOOLEAN : TEnter(own)
    \/ TLock
    \/ TAdjust

SpecTick == Init /\ [][NextTick]_vars

\* the rate the adjustment of this step computes
TickRate == Rate(cache[TickArena].arena.nalloc, pa.elapsed)

\* C15 as stated: a tick that computes rate >= 2 * alloc_size sets alloc_size to
\* twice its previous value, which is no more than rate, and empties the free list
C15_AdjustUpDoubles ==
    [][(TAdjust /\ TickRate >= 2 * cache[TickArena].arena.allocSize) =>
           /\ cache'[TickArena].arena.allocSize = 2 * cache[TickArena].arena.allocSize
           /\ cache'[TickArena].arena.allocSize <= TickRate
           /\ cache'[TickArena].arena.free = <<>>]_vars

\* C15 amended: a tick that computes rate >= 2 * alloc_size sets alloc_size to
\* rate, which is at least twice its previous value, releases every element of
\* the free list and leaves the free list empty
C15_AdjustUpToRate ==
    [][(TAdjust /\ TickRate >= 2 * cache[TickArena].arena.allocSize) =>
           /\ cache'[TickArena].arena.allocSize = TickRate
           /\ cache'[TickArena].arena.allocSize >= 2 * cache[TickArena].arena.allocSize
           /\ cache'[TickArena].arena.free = <<>>
           /\ \A e \in SeqSet(cache[TickArena].arena.free) : ~elem'[e].alive]_vars

\* an adjust up from a non-zero alloc_size to more than twice it, with a free
\* list to drop
C15_Witness ==
    /\ ret.op = "periodic_activity"
    /\ ret.branch = "up"
    /\ ret.allocSize > 0
    /\ ret.free > 0
    /\ cache[TickArena].arena.allocSize > 2 * ret.allocSize
    /\ cache[TickArena].arena.free = <<>>

\* C16: a tick that computes rate <= alloc_size / 2 leaves alloc_size at half its
\* previous value rounded down, for every alloc_size including 0 and 1, and the
\* free list empty with its elements released
C16_AdjustDownHalves ==
    [][(TAdjust /\ TickRate <= cache[TickArena].arena.allocSize \div 2) =>
           /\ cache'[TickArena].arena.allocSize = cache[TickArena].arena.allocSize \div 2
           /\ cache'[TickArena].arena.free = <<>>
           /\ \A e \in SeqSet(cache[TickArena].arena.free) : ~elem'[e].alive]_vars

\* an adjust down from alloc_size 1 to 0
C16_Witness ==
    /\ ret.op = "periodic_activity"
    /\ ret.branch = "down"
    /\ ret.allocSize = 1
    /\ ret.rate = 0
    /\ cache[TickArena].arena.allocSize = 0
    /\ cache[TickArena].arena.free = <<>>

\* the same at alloc_size 0, where the code takes the adjust-up branch
AdjustDownAtZero ==
    /\ ret.op = "periodic_activity"
    /\ ret.allocSize = 0
    /\ ret.rate = 0
    /\ cache[TickArena].arena.allocSize = 0

\* an adjust down that dropped a free list
AdjustDownDropsFree ==
    /\ ret.op = "periodic_activity"
    /\ ret.branch = "down"
    /\ ret.free > 0
    /\ cache[TickArena].arena.free = <<>>

\* C17: every read and write of arena state that periodic_activity performs
\* happens while the calling thread owns the lock passed to it
C17_AccessesUnderLock == pa.bare = {}

\* the head of the used list of arena a cannot hold m bytes
HeadExhausted(a, m) == ~(a.used # <<>> /\ Remain(Mem, Head(a.used)) >= m)

\* the elements of the free list of arena a with room for m bytes
FreeWithRoom(a, m) == {e \in SeqSet(a.free) : Remain(Mem, e) >= m}

\* the request of m bytes is served at the head of the used list after the step
ServedFromHead(m) ==
    \E r \in regions' \ regions :
        /\ r.e = Head(cache'[TickArena].arena.used)
        /\ r.len = m
        /\ r.off + r.len = elem'[r.e].used
        /\ elem'[r.e].used <= elem'[r.e].capacity

\* what alloc does, going from arena a to arena b for a request rounded to m
\* bytes, when the head of a's used list cannot hold it
ExhaustedAlloc(a, b, m) ==
    /\ IF FreeWithRoom(a, m) # {}
       THEN /\ Len(elem') = Len(elem)
            /\ Head(b.used) \in FreeWithRoom(a, m)
            /\ b.used = <<Head(b.used)>> \o a.used
            /\ SeqSet(b.free) = SeqSet(a.free) \ {Head(b.used)}
            /\ Len(b.free) = Len(a.free) - 1
       ELSE /\ Len(elem') = Len(elem) + 1
            /\ elem'[Len(elem')].capacity = Max(a.allocSize, m)
            /\ elem'[Len(elem')].alive
            /\ b.used = <<Len(elem')>> \o a.used
            /\ b.free = a.free
            /\ \A e \in DOMAIN elem : elem'[e] = elem[e]
    /\ ServedFromHead(m)

\* C22: when the head used element cannot hold alloc(n), n rounded up to a
\* multiple of 8: if any element of the free list has room for n, one such
\* element becomes the head of the used list and no element is created;
\* otherwise exactly one element of capacity max(alloc_size, n) is created; in
\* both cases the request is served from the new head
C22_ExhaustedHead ==
    [][\A n \in ReqSizes :
          (TAlloc(n) /\ HeadExhausted(cache[TickArena].arena, Round8(n))) =>
              ExhaustedAlloc(cache[TickArena].arena, cache'[TickArena].arena,
                             Round8(n))]_vars

\* a used list whose head was created before the element below it: the head
\* came off the free list when that element was exhausted, and holds a region
C22_Witness ==
    LET a == cache[TickArena].arena
    IN  /\ Len(a.used) >= 2
        /\ a.used[1] < a.used[2]
        /\ elem[a.used[2]].used = elem[a.used[2]].capacity
        /\ \E r \in regions : r.e = a.used[1] /\ r.off = 0

\* an element created with the capacity alloc_size, larger than the request
\* it serves
NewElementOfAllocSize ==
    LET a == cache[TickArena].arena
    IN  /\ a.used # <<>>
        /\ Head(a.used) = Len(elem)
        /\ elem[Len(elem)].capacity = a.allocSize
        /\ elem[Len(elem)].used > 0
        /\ elem[Len(elem)].used < a.allocSize

\* ------------------------------------------------------------------ lifetime runs
\* Two arenas through their whole life: alloc, clear, shrink_to_fit,
\* periodic_activity by the owner of the lock over several seconds, swap,
\* move construction and destruction.

\* the clock of these runs is read once a second
LTick ==
    /\ now + TicksPerSec <= MaxLifeTime
    /\ now' = now + TicksPerSec
    /\ UNCHANGED <<memvars, ret, pa, storevars>>

\* the request size of these runs
LifeSizes == {8}

LAlloc(c, n) ==
    /\ cache[c].arena.nalloc + Round8(n) <= MaxLifeNalloc
    /\ NextSerial(regions) <= MaxLifeAllocs
    /\ NeedsNew(Mem, c, n) => Len(elem) < MaxLifeElems
    /\ SetMem(ArenaAlloc(Mem, c, n).s)
    /\ ret' = NoRet
    /\ UNCHANGED <<now, pa, storevars>>

\* the branch a call of periodic_activity on arena c takes now
LifeBranch(c) ==
    Branch(Rate(cache[c].arena.nalloc, now - cache[c].arena.when),
           cache[c].arena.allocSize)

\* periodic_activity(m) by a caller that owns m; the ghost keeps the branch
\* that a call that got past the one-second test took
LPeriodic(c) ==
    /\ SetMem(ArenaPeriodic(Mem, c, now))
    /\ ret' = IF now - cache[c].arena.when < TicksPerSec THEN NoRet
              ELSE Called(LifeBranch(c), c)
    /\ UNCHANGED <<now, pa, storevars>>

\* arena r ends (its lists are empty after the destructor) and the arena
\* constructed in its place takes over arena Other(r)
LMove(r) ==
    /\ cache[r].arena.used = <<>>
    /\ cache[r].arena.free = <<>>
    /\ SetMem(ArenaMove(Mem, Other(r), r, now))
    /\ ret' = Called("move", r)
    /\ UNCHANGED <<now, pa, storevars>>

\* the destructor of arena c; its storage is left with both lists null
LDestroy(c) ==
    /\ cache[c].arena.used # <<>> \/ cache[c].arena.free # <<>>
    /\ SetMem(ArenaDestroy(Mem, c))
    /\ ret' = NoRet
    /\ UNCHANGED <<now, pa, storevars>>

NextLife ==
    \/ LTick
    \/ \E c \in Caches, n \in LifeSizes : LAlloc(c, n)
    \/ \E c \in Caches : AClear(c)
    \/ \E c \in Caches : AShrinkToFit(c)
    \/ \E c \in Caches : LPeriodic(c)
    \/ ASwap
    \/ \E c \in Caches : LMove(c)
    \/ \E c \in Caches : LDestroy(c)

SpecLife == Init /\ [][NextLife]_vars

\* a call of periodic_activity on arena c now returns at the one-second test
EarlyCall(c) == now - cache[c].arena.when < TicksPerSec

\* this step is a call of periodic_activity on arena c that got past the test
TickOf(c) ==
    /\ ~EarlyCall(c)
    /\ ret'.c = c
    /\ ret'.op = LifeBranch(c)
    /\ LPeriodic(c)

\* the rate a tick of arena c computes now
LifeRate(c) == Rate(cache[c].arena.nalloc, now - cache[c].arena.when)

\* what C23 says of the calls of periodic_activity themselves
TickEffects(c) ==
    /\ (EarlyCall(c) /\ LPeriodic(c)) => UNCHANGED memvars
    /\ (TickOf(c) /\ 2 * LifeRate(c) > cache[c].arena.allocSize
                  /\ LifeRate(c) < 2 * cache[c].arena.allocSize) =>
           /\ cache'[c].arena.allocSize = cache[c].arena.allocSize
           /\ cache'[c].arena.used = cache[c].arena.used
           /\ cache'[c].arena.free = cache[c].arena.free
           /\ elem' = elem
    /\ TickOf(c) => cache'[c].arena.nalloc = 0

\* the byte counter of arena c goes from non-zero to zero in this step
CounterReset(c) == cache[c].arena.nalloc # 0 /\ cache'[c].arena.nalloc = 0

\* C23 as stated: a call less than one second after the previous tick changes
\* no arena state; a tick with alloc_size/2 < rate < 2*alloc_size leaves
\* alloc_size and both lists unchanged; every tick resets the byte counter to
\* zero, and no other call does
C23_ResetOnlyByTick ==
    [][\A c \in Caches : TickEffects(c) /\ (CounterReset(c) => TickOf(c))]_vars

\* C23 amended: besides a tick only swap, which exchanges the counters of the
\* two arenas, and move construction, which zeroes the counter of the arena
\* moved from and starts the new arena with the counter moved in, bring a
\* counter to zero; alloc, clear, shrink_to_fit and the destructor do not
C23_ResetByTickSwapMove ==
    [][\A c \in Caches :
          /\ TickEffects(c)
          /\ CounterReset(c) => (TickOf(c) \/ ASwap \/ \E r \in Caches : LMove(r))
          /\ cache'[c].arena.nalloc # cache[c].arena.nalloc =>
                 \/ TickOf(c) \/ ASwap
                 \/ \E r \in Caches : LMove(r)
                 \/ \E n \in LifeSizes : LAlloc(c, n)]_vars

\* a tick inside the band, on an arena that holds elements on both lists
\* before and after it
C23_Witness ==
    /\ ret.op = "keep"
    /\ cache[ret.c].arena.when = now
    /\ cache[ret.c].arena.nalloc = 0
    /\ cache[ret.c].arena.allocSize > 0
    /\ cache[ret.c].arena.used # <<>>

\* C25: after any sequence of alloc, clear, shrink_to_fit, periodic_activity
\* ticks, swap and move construction, every element on the free list of an
\* arena has its cursor at zero and a capacity equal to that arena's alloc_size
C25_FreeListUniform ==
    \A c \in Caches : \A e \in SeqSet(cache[c].arena.free) :
        /\ elem[e].used = 0
        /\ elem[e].capacity = cache[c].arena.allocSize

\* two arenas that ticked to different alloc_sizes, one of them holding a
\* free list while it counts bytes allocated since its tick
C25_Witness ==
    \E c \in Caches :
        /\ cache[c].arena.free # <<>>
        /\ cache[c].arena.allocSize > 0
        /\ cache[Other(c)].arena.allocSize > 0
        /\ cache[Other(c)].arena.allocSize # cache[c].arena.allocSize
        /\ cache[c].arena.nalloc > 0

\* the lists of the arenas, and those that hold element e
ArenaLists == Caches \X {"used", "free"}
ListAt(x) == IF x[2] = "used" THEN cache[x[1]].arena.used ELSE cache[x[1]].arena.free
Holding(e) == {x \in ArenaLists : e \in SeqSet(ListAt(x))}

\* C27: at every moment each live element is on exactly one list, used or
\* free, of exactly one arena, once; an element that was released is on no
\* list, so that none is released twice, and none is allocated and on no list
C27_OneListEach ==
    /\ \A e \in DOMAIN elem :
          IF elem[e].alive THEN Cardinality(Holding(e)) = 1 ELSE Holding(e) = {}
    /\ \A x \in ArenaLists :
          /\ SeqSet(ListAt(x)) \subseteq DOMAIN elem
          /\ Cardinality(SeqSet(ListAt(x))) = Len(ListAt(x))

\* right after a move construction that took over an arena holding an element,
\* which is now on one list of the new arena and on none of the old one
C27_Witness ==
    /\ ret.op = "move"
    /\ cache[ret.c].arena.allocSize > 0
    /\ cache[Other(ret.c)].arena = NewArena(now)
    /\ \E e \in DOMAIN elem : elem[e].alive /\ Holding(e) = {<<ret.c, "free">>}

\* ------------------------------------------------------------------ cache-level runs
\* The cache API driven directly on p0 and p1.

\* the buckets a caller can pass to insert: a buffer of its own, or the view of
\* a bucket held by the other cache
Arguments(c) ==
    SampleBuckets \cup {Deref(Mem, cache[Other(c)].map[n]) : n \in DOMAIN cache[Other(c)].map}

CCreate(c, n) ==
    /\ Len(elem) < MaxCacheElems
    /\ LET r == CacheCreate(Mem, c, n)
       IN  /\ SetMem(r.s)
           /\ ret' = Ret("create", c, n, r.p, r.p, EmptyBucket)
    /\ UNCHANGED <<now, pa, storevars>>

CInsert(c, n, b) ==
    /\ Len(elem) < MaxCacheElems
    /\ LET r == CacheInsert(Mem, c, n, b)
       IN  /\ SetMem(r.s)
           /\ ret' = Ret("insert", c, n, r.p, r.q, b)
    /\ UNCHANGED <<now, pa, storevars>>

\* a store through the bucket view that find(n) returns
CMutate(c, n, b) ==
    /\ Present(Mem, c, n)
    /\ Deref(Mem, CacheFind(Mem, c, n)) # b
    /\ SetMem(Poke(Mem, CacheFind(Mem, c, n), b))
    /\ ret' = IF ret.op = "insert" /\ CacheFind(Mem, c, n) \notin {ret.p, ret.q}
              THEN ret ELSE NoRet
    /\ UNCHANGED <<now, pa, storevars>>

CClear(c) ==
    /\ SetMem(CacheClear(Mem, c))
    /\ ret' = NoRet
    /\ UNCHANGED <<now, pa, storevars>>

CShrinkToFit(c) ==
    /\ SetMem(CacheShrinkToFit(Mem, c))
    /\ ret' = NoRet
    /\ UNCHANGED <<now, pa, storevars>>

CSwap ==
    /\ SetMem(CacheSwap(Mem, 0, 1))
    /\ ret' = Called("swap", 0)
    /\ UNCHANGED <<now, pa, storevars>>

NextCache ==
    \/ \E c \in Caches, n \in Indices : CCreate(c, n)
    \/ \E c \in Caches, n \in Indices : \E b \in Arguments(c) : CInsert(c, n, b)
    \/ \E c \in Caches, n \in Indices : \E b \in SampleBuckets : CMutate(c, n, b)
    \/ \E c \in Caches : CClear(c)
    \/ \E c \in Caches : CShrinkToFit(c)
    \/ CSwap

SpecCache == Init /\ [][NextCache]_vars

\* C6: in every cache state, index n already present included, create(n) stores
\* the blob it allocated under n: right after the call find(n) yields the blob
\* whose view create returned, and that blob is an empty bucket.
C6_CreateStoresItsBlob ==
    ret.op = "create" =>
        /\ CacheFind(Mem, ret.c, ret.n) = ret.p
        /\ Deref(Mem, CacheFind(Mem, ret.c, ret.n)) = EmptyBucket

\* C7: in every cache state, index n already present included, after
\* insert(n, b) the cache holds under n a copy of b that later stores through b
\* do not change.
C7_InsertStoresCopy ==
    ret.op = "insert" => Deref(Mem, CacheFind(Mem, ret.c, ret.n)) = ret.b

\* what does hold of create and insert: when n was absent (the blob they
\* allocated is the one in the map) the claims are met
CreateInsertOnAbsentIndex ==
    /\ (ret.op = "create" /\ CacheFind(Mem, ret.c, ret.n) = ret.q) =>
           Deref(Mem, CacheFind(Mem, ret.c, ret.n)) = EmptyBucket
    /\ (ret.op = "insert" /\ ret.p = ret.q) =>
           Deref(Mem, CacheFind(Mem, ret.c, ret.n)) = ret.b


\* ------------------------------------------------------------------ cache runs with periodic activity
\* The cache API together with the clock and the periodic activity of the
\* caches' arenas, as the store drives them.

\* the indices and the bucket argument of these runs
EvictIndices == {0, 1}
EvictBucket == [spill |-> 0, ents |-> <<[h |-> 0, off |-> 1]>>]

\* the clock of these runs is read at construction and one second later
ETick ==
    /\ now < TicksPerSec
    /\ now' = now + TicksPerSec
    /\ UNCHANGED <<memvars, ret, pa, storevars>>

\* create and insert allocate one block
MayAllocBlock(c) ==
    /\ cache[c].arena.nalloc + Round8(cache[c].block_size) <= MaxEvictNalloc
    /\ NeedsNew(Mem, c, cache[c].block_size) => Len(elem) < MaxEvictElems

ECreate(c, n) ==
    /\ MayAllocBlock(c)
    /\ SetMem(CacheCreate(Mem, c, n).s)
    /\ ret' = NoRet
    /\ UNCHANGED <<now, pa, storevars>>

EInsert(c, n, b) ==
    /\ MayAllocBlock(c)
    /\ SetMem(CacheInsert(Mem, c, n, b).s)
    /\ ret' = NoRet
    /\ UNCHANGED <<now, pa, storevars>>

EShrinkToFit(c) ==
    /\ SetMem(CacheShrinkToFit(Mem, c))
    /\ ret' = Called("shrink_to_fit", c)
    /\ UNCHANGED <<now, pa, storevars>>

\* periodic_activity of the arena of cache c, by a caller that owns the mutex
EPeriodic(c) ==
    /\ SetMem(ArenaPeriodic(Mem, c, now))
    /\ ret' = Called("periodic_activity", c)
    /\ UNCHANGED <<now, pa, storevars>>

NextEvict ==
    \/ ETick
    \/ \E c \in Caches, n \in EvictIndices : ECreate(c, n)
    \/ \E c \in Caches, n \in EvictIndices : EInsert(c, n, EvictBucket)
    \/ \E c \in Caches : CClear(c)
    \/ \E c \in Caches : EShrinkToFit(c)
    \/ \E c \in Caches : EPeriodic(c)
    \/ CSwap

SpecEvict == Init /\ [][NextEvict]_vars

\* cache c keeps over the step every entry it holds: the index stays in the
\* map, under the same blob, and the blob stays allocated
KeepsEntries(c) ==
    \A n \in DOMAIN cache[c].map :
        /\ n \in DOMAIN cache'[c].map
        /\ cache'[c].map[n] = cache[c].map[n]
        /\ cache[c].map[n] \in DOMAIN blob'
        /\ elem'[cache[c].map[n].e].alive

\* C18: the cache never evicts: no operation other than clear (and swap, which
\* hands the entries to the other cache) removes an entry of a cache, be it
\* create, insert, shrink_to_fit or periodic activity; a swap exchanges the
\* entries of the two caches whole
C18_NoEviction ==
    [][/\ \A c \in Caches : (~CClear(c) /\ ~CSwap) => KeepsEntries(c)
       /\ CSwap => \A c \in Caches : cache'[c].map = cache[Other(c)].map]_vars

\* a cache that holds entries right after a shrink_to_fit or a periodic activity
\* on it released elements of its free list
C18_Witness ==
    /\ ret.op \in {"shrink_to_fit", "periodic_activity"}
    /\ cache[ret.c].map # <<>>
    /\ \E e \in DOMAIN elem : ~elem[e].alive /\ elem[e].capacity = cache[ret.c].arena.allocSize
    /\ cache[ret.c].arena.free = <<>>
    /\ \A n \in DOMAIN cache[ret.c].map : cache[ret.c].map[n] \in DOMAIN blob

\* cache c after the step holds what cache d held before it, and its arena the
\* used list and byte counter of d's arena
TakesOver(c, d) ==
    /\ cache'[c].map = cache[d].map
    /\ cache'[c].key_size = cache[d].key_size
    /\ cache'[c].block_size = cache[d].block_size
    /\ cache'[c].arena.used = cache[d].arena.used
    /\ cache'[c].arena.nalloc = cache[d].arena.nalloc
    /\ \A i \in EvictIndices :
          /\ CacheFind(Mem', c, i) = CacheFind(Mem, d, i)
          /\ Deref(Mem', CacheFind(Mem', c, i)) = Deref(Mem, CacheFind(Mem, d, i))

\* the arena of cache c keeps allocSize_, free_ and when_ over the step
StaysPut(c) ==
    /\ cache'[c].arena.allocSize = cache[c].arena.allocSize
    /\ cache'[c].arena.free = cache[c].arena.free
    /\ cache'[c].arena.when = cache[c].arena.when

\* C24: swapping the two caches exchanges their bucket maps, key_size,
\* block_size, arena used lists and arena byte counters and leaves each arena's
\* alloc_size, free list and tick timestamp where they were; after the swap
\* find(i) of each cache returns what find(i) of the other returned before, and
\* each arena's next rate is computed from the counter the other accumulated
C24_SwapExchanges ==
    [][CSwap => /\ \A c \in Caches : TakesOver(c, Other(c)) /\ StaysPut(c)
                /\ elem' = elem
                /\ blob' = blob]_vars

\* right after a swap of two caches that differ in their entries, byte
\* counters, alloc_size and timestamps, one of them with a free list
C24_Witness ==
    /\ ret.op = "swap"
    /\ cache[0].map # cache[1].map
    /\ cache[0].map # <<>>
    /\ cache[0].arena.nalloc # cache[1].arena.nalloc
    /\ cache[0].arena.used # cache[1].arena.used
    /\ cache[0].arena.allocSize # cache[1].arena.allocSize
    /\ cache[0].arena.when # cache[1].arena.when
    /\ \E c \in Caches : cache[c].arena.free # <<>>

\* the blob pointer p of cache c refers to a region handed out by c's arena
\* that lies in a live element on that arena's used list
RefersToUsed(c, p) ==
    /\ p # NullPtr
    /\ p.e \in SeqSet(cache[c].arena.used)
    /\ elem[p.e].alive
    /\ \E r \in regions :
          /\ r.e = p.e
          /\ r.off = p.off
          /\ r.len >= cache[c].block_size
          /\ RegionInside(r)

\* C26: after any sequence of create, insert, find, clear, shrink_to_fit,
\* arena ticks and cache swaps, every blob pointer in a cache's map refers to
\* a region inside an element on the used list of that cache's arena, never
\* to memory freed, put on a free list or left in the other cache's arena
C26_MapRefersToUsed ==
    \A c \in Caches : \A n \in DOMAIN cache[c].map : RefersToUsed(c, cache[c].map[n])

\* right after a swap of two caches that both hold entries, with arenas of
\* different alloc_size
C26_Witness ==
    /\ ret.op = "swap"
    /\ \A c \in Caches : cache[c].map # <<>>
    /\ cache[0].arena.allocSize # cache[1].arena.allocSize
    /\ \E n \in DOMAIN cache[0].map :
          cache[0].map[n].e \notin SeqSet(cache[1].arena.used)

\* ------------------------------------------------------------------ store: pure parts
\* max_entries(block_size, key_size) = (block_size - 8) / 20
MaxEntries == (BlockSize - 8) \div 20

\* bucket_index: h mod modulus, or h mod (modulus / 2) when that bucket does
\* not exist yet
LinearHashIndex(h, buckets, modulus) ==
    LET n == h % modulus
    IN  IF n >= buckets THEN h % (modulus \div 2) ELSE n

RECURSIVE Pow2Ceil(_, _)
\* the smallest power of two, from m on, that is at least n
Pow2Ceil(n, m) == IF m >= n THEN m ELSE Pow2Ceil(n, 2 * m)

EntryLess(x, e) == x.h < e.h \/ (x.h = e.h /\ x.off < e.off)

\* bucket insert: in sorted position (by hash, ties by data offset)
BucketInsert(b, e) ==
    IF b = Garbage THEN Garbage
    ELSE [b EXCEPT !.ents = SelectSeq(b.ents, LAMBDA x : EntryLess(x, e)) \o <<e>>
                             \o SelectSeq(b.ents, LAMBDA x : ~EntryLess(x, e))]

\* is_full
BucketFull(b) == b # Garbage /\ Len(b.ents) >= MaxEntries

ValRec(k, v) == [t |-> "val", k |-> k, v |-> v, b |-> EmptyBucket]
SpillRec(b) == [t |-> "spill", k |-> 0, v |-> 0, b |-> b]

RECURSIVE ChainEntries(_, _)
\* the entries of a bucket followed by those of its overflow chain in the data
\* file d (spill offsets decrease along a chain)
ChainEntries(b, d) ==
    IF b = Garbage \/ b.spill = 0 THEN b.ents
    ELSE IF /\ b.spill \in 1 .. Len(d)
            /\ d[b.spill].t = "spill"
            /\ d[b.spill].b.spill < b.spill
         THEN b.ents \o ChainEntries(d[b.spill].b, d)
         ELSE b.ents

Hit(v) == [r |-> "hit", v |-> v]
Miss == [r |-> "miss", v |-> 0]
Err == [r |-> "error", v |-> 0]
Values == {1, 2}
AnyResult == {Miss, Err} \cup {Hit(v) : v \in Values}

\* walk of one chain for key k with hash h: the hash filters, the key bytes of
\* the data record decide
WalkResult(b, d, h, k) ==
    IF b = Garbage THEN AnyResult
    ELSE LET cand == SelectSeq(ChainEntries(b, d), LAMBDA e : e.h = h)
             good == SelectSeq(cand, LAMBDA e : e.off \in 1 .. Len(d) /\ d[e.off].t = "val"
                                                /\ d[e.off].k = k)
             bad == SelectSeq(cand, LAMBDA e : ~(e.off \in 1 .. Len(d) /\ d[e.off].t = "val"))
         IN  IF good # <<>> THEN {Hit(d[good[1].off].v)}
             ELSE IF bad # <<>> THEN {Err}
             ELSE {Miss}

\* fetch: bucket i in p1, else p0; on no match, bucket i of the key file.
\* The outcomes a call can have (one, unless it reads released memory).
Fetch(s, d, kf, state, k) ==
    LET h == KeyHash[k]
        i == LinearHashIndex(h, state.buckets, state.modulus)
        p == IF Present(s, 1, i) THEN CacheFind(s, 1, i) ELSE CacheFind(s, 0, i)
        inCache == IF p = NullPtr THEN {Miss} ELSE WalkResult(Deref(s, p), d, h, k)
        onDisk == IF i < Len(kf) THEN WalkResult(kf[i + 1], d, h, k) ELSE {Miss}
    IN  (inCache \ {Miss}) \cup (IF Miss \in inCache THEN onDisk ELSE {})

\* the store's memory and data writer t once the cache returned r
Loaded(t, r) == [t |-> [t EXCEPT !.s = r.s], p |-> r.p]

\* get-or-create bucket n in p1: the bucket p1 holds, else a copy of the one p0
\* holds, else a copy of the key file's, else a new empty one
StoreLoad(t, n, kf) ==
    IF Present(t.s, 1, n) THEN [t |-> t, p |-> CacheFind(t.s, 1, n)]
    ELSE IF Present(t.s, 0, n)
    THEN Loaded(t, CacheInsert(t.s, 1, n, Deref(t.s, CacheFind(t.s, 0, n))))
    ELSE IF n < Len(kf)
    THEN Loaded(t, CacheInsert(t.s, 1, n, kf[n + 1]))
    ELSE Loaded(t, CacheCreate(t.s, 1, n))

\* put entry e into the bucket l.p that p1 holds
PutLoaded(l, e) ==
    LET b == Deref(l.t.s, l.p)
    IN  IF BucketFull(b)
        THEN [s |-> Poke(l.t.s, l.p, [spill |-> Len(l.t.d) + 1, ents |-> <<e>>]),
              d |-> Append(l.t.d, SpillRec(b))]
        ELSE [s |-> Poke(l.t.s, l.p, BucketInsert(b, e)), d |-> l.t.d]

\* put entry e into bucket n of p1; a full bucket is first appended to the data
\* writer as a spill record and restarts empty, pointing at that record
StorePut(t, n, e, kf) == PutLoaded(StoreLoad(t, n, kf), e)

\* the bucket a split takes when the bucket count has become nb
SplitSource(nb, nm) == nb \div 2 - 1

RECURSIVE Redistribute(_, _, _, _, _, _, _)
Redistribute(t, es, n1, n2, nb, nm, kf) ==
    IF es = <<>> THEN t
    ELSE LET e == Head(es)
             n == IF LinearHashIndex(e.h, nb, nm) = n2 THEN n2 ELSE n1
         IN  Redistribute(StorePut(t, n, e, kf), Tail(es), n1, n2, nb, nm, kf)

\* the split of the loaded source bucket l.p into itself and the new bucket n2
SplitLoaded(l, n1, n2, nb, nm, kf) ==
    Redistribute([s |-> CacheCreate(Poke(l.t.s, l.p, EmptyBucket), 1, n2).s, d |-> l.t.d],
                 ChainEntries(Deref(l.t.s, l.p), l.t.d), n1, n2, nb, nm, kf)

\* split: one more bucket, modulus doubled when exceeded; the entries of the
\* source bucket and its whole chain go to the source or to the new bucket
StoreSplit(t, state, kf) ==
    LET nb == state.buckets + 1
        nm == IF nb > state.modulus THEN 2 * state.modulus ELSE state.modulus
        n1 == SplitSource(nb, nm)
    IN  [t |-> SplitLoaded(StoreLoad(t, n1, kf), n1, nb - 1, nb, nm, kf),
         state |-> [state EXCEPT !.buckets = nb, !.modulus = nm]]

\* load factor exceeded: items / (buckets * max_entries) > LoadNum / LoadDen
LoadExceeded(state) == state.items * LoadDen > state.buckets * MaxEntries * LoadNum

\* insert step 7: a split when the load factor is exceeded
SplitOnLoad(t, state, kf) ==
    IF LoadExceeded(state) THEN StoreSplit(t, state, kf) ELSE [t |-> t, state |-> state]

\* insert of a key the probe did not find: data record, entry, maybe a split
StoreInsert(s, d, kf, state, k, v) ==
    LET e == [h |-> KeyHash[k], off |-> Len(d) + 1]
        i == LinearHashIndex(e.h, state.buckets, state.modulus)
    IN  SplitOnLoad(StorePut([s |-> s, d |-> Append(d, ValRec(k, v))], i, e, kf),
                    [state EXCEPT !.items = @ + 1], kf)


\* ------------------------------------------------------------------ store: files
Files == [data |-> data, key |-> key, log |-> log]

LogEmpty(l) == ~l.hdr /\ l.pre = {}

\* the key file grown to nb buckets
Extend(kf, nb) == kf \o [j \in 1 .. (nb - Len(kf)) |-> EmptyBucket]

RECURSIVE CountEntries(_, _)
CountEntries(kf, d) ==
    IF kf = <<>> THEN 0 ELSE Len(ChainEntries(Head(kf), d)) + CountEntries(Tail(kf), d)

\* the state record open derives from the key file
OpenState(kf, d) ==
    [buckets |-> Len(kf), modulus |-> Pow2Ceil(Len(kf), 1), items |-> CountEntries(kf, d)]

\* recover, step by step: pre-images back, data file cut, key file cut, log cut
RecoverApply(f, step) ==
    IF step = "pre"
    THEN [f EXCEPT !.key = [j \in 1 .. Len(f.key) |->
                              IF \E x \in f.log.pre : x.n + 1 = j
                              THEN (CHOOSE x \in f.log.pre : x.n + 1 = j).b
                              ELSE f.key[j]]]
    ELSE IF step = "dat"
    THEN [f EXCEPT !.data = SubSeq(f.data, 1, f.log.dsize)]
    ELSE IF step = "key"
    THEN [f EXCEPT !.key = SubSeq(f.key, 1, f.log.ksize)]
    ELSE [f EXCEPT !.log = NoLog]

\* a recover that cuts the log before it restores anything
RecoverOrderLogFirst == <<"log", "pre", "dat", "key">>

\* the order of the steps of recover
RecoverOrder == <<"pre", "dat", "key", "log">>

RECURSIVE RecoverFrom(_, _)
\* recover run to its end from step number j
RecoverFrom(f, j) ==
    IF j > Len(RecoverOrder) THEN f
    ELSE IF LogEmpty(f.log) THEN f
    ELSE RecoverFrom(RecoverApply(f, RecoverOrder[j]), j + 1)

\* recover as a function of the three files
Recover(f) == IF LogEmpty(f.log) THEN f ELSE RecoverFrom(f, 1)

\* ------------------------------------------------------------------ store: actions
Put(f, k, v) == [j \in DOMAIN f \cup {k} |-> IF j = k THEN v ELSE f[j]]
Restrict(f, S) == [j \in DOMAIN f \cap S |-> f[j]]

\* the errors a commit can fail with: a short write in the data phase, a
\* failed sync in the truncate phase
ErrorKinds == {"short_write", "sync_failed"}

\* where the worker stands when phase failure e strikes
FailsAt(e) == IF e = "short_write" THEN "logged" ELSE "keyed"

\* the bucket indices an insert of k that goes ahead writes to: the bucket of
\* k and, on a split, the source and the new bucket
Dirtied(state, k) ==
    LET nb == state.buckets + 1
        nm == IF nb > state.modulus THEN 2 * state.modulus ELSE state.modulus
    IN  {LinearHashIndex(KeyHash[k], state.buckets, state.modulus)} \cup
        (IF LoadExceeded([state EXCEPT !.items = @ + 1])
         THEN {SplitSource(nb, nm), nb - 1} ELSE {})

\* an insert that never looks at the async-error slot
InsertRefusedNever == FALSE

\* insert step 1: the async-error slot is set
InsertRefused == ecode # "none"

\* insert step 1 surfaces the error: no duplicate probe, nothing written
InsertSurface ==
    /\ res' = [op |-> "insert", dup |-> FALSE, wrote |-> FALSE, r |-> ecode]
    /\ UNCHANGED <<memvars, data, st, hist>>

\* insert steps 2 to 7; a repeated insert carries another value than the first
InsertGo(k) ==
    /\ Len(elem) + 3 <= MaxBlobs
    /\ LET dup == k \in DOMAIN hist.ok
           v == IF dup THEN 2 ELSE 1
       IN  \E o \in Fetch(Mem, data, key, st, k), x \in {StoreInsert(Mem, data, key, st, k, v)} :
             LET go == o.r = "miss"
             IN  /\ SetMem(IF go THEN x.t.s ELSE Mem)
                 /\ data' = IF go THEN x.t.d ELSE data
                 /\ st' = IF go THEN x.state ELSE st
                 /\ hist' = IF go
                            THEN [hist EXCEPT !.ok = IF dup THEN @ ELSE Put(@, k, v),
                                              !.dirty = @ \cup Dirtied(st, k)]
                            ELSE hist
                 /\ res' = [op |-> "insert", dup |-> dup, wrote |-> go,
                            r |-> IF go THEN "ok"
                                  ELSE IF o.r = "hit" THEN "key_exists" ELSE "error"]

\* insert(k, v)
Insert(k) ==
    /\ mode = "open"
    /\ IF InsertRefused THEN InsertSurface ELSE InsertGo(k)
    /\ UNCHANGED <<now, ret, pa, ecode, dlen, key, log, pc, wk, mode, rpc>>

\* commit step 1: swap p1 with p0, snapshot the pending data, capture the sizes
CommitSwap ==
    /\ mode \in {"open", "closing"}
    /\ pc = "idle"
    /\ cache[1].map # <<>>
    /\ SetMem(CacheSwap(Mem, 1, 0))
    /\ wk' = [dsnap |-> Len(data), dbefore |-> dlen, kbefore |-> Len(key),
              bafter |-> st.buckets, todo |-> {}]
    /\ hist' = [hist EXCEPT !.flushing = DOMAIN hist.ok \ hist.committed,
                            !.dirty = {},
                            !.pre = [data |-> SubSeq(data, 1, dlen), key |-> key,
                                     log |-> NoLog]]
    /\ pc' = "swapped"
    /\ UNCHANGED <<now, ret, pa, ecode, st, data, dlen, key, log, mode, rpc, res>>

\* a log phase that writes the header without the pre-images
CommitLogHeaderOnly ==
    /\ mode \in {"open", "closing"}
    /\ pc = "swapped"
    /\ log' = [hdr |-> TRUE, dsize |-> wk.dbefore, ksize |-> wk.kbefore, pre |-> {}]
    /\ pc' = "logged"
    /\ UNCHANGED <<memvars, now, ret, pa, ecode, st, data, dlen, key, wk, mode, rpc, hist, res>>

\* commit step 2: pre-images of the buckets of p0 that exist on disk, header, sync
CommitLog ==
    /\ mode \in {"open", "closing"}
    /\ pc = "swapped"
    /\ log' = [hdr |-> TRUE, dsize |-> wk.dbefore, ksize |-> wk.kbefore,
               pre |-> {[n |-> n, b |-> key[n + 1]] :
                            n \in {m \in DOMAIN cache[0].map : m < wk.kbefore}}]
    /\ pc' = "logged"
    /\ UNCHANGED <<memvars, now, ret, pa, ecode, st, data, dlen, key, wk, mode, rpc, hist, res>>

\* commit step 3: the snapshot of data records and spills reaches the data file
CommitData ==
    /\ mode \in {"open", "closing"}
    /\ pc = "logged"
    /\ dlen' = wk.dsnap
    /\ wk' = [wk EXCEPT !.todo = DOMAIN cache[0].map]
    /\ pc' = "data"
    /\ UNCHANGED <<memvars, now, ret, pa, ecode, st, data, key, log, mode, rpc, hist, res>>

\* commit step 4, one bucket of p0 at a time: write it to its slot of the key
\* file (grown to the bucket count first); the last write is followed by the sync
CommitKey(n) ==
    /\ mode \in {"open", "closing"}
    /\ pc = "data"
    /\ n \in wk.todo
    /\ key' = [Extend(key, wk.bafter) EXCEPT ![n + 1] = Deref(Mem, CacheFind(Mem, 0, n))]
    /\ wk' = [wk EXCEPT !.todo = @ \ {n}]
    /\ pc' = IF wk.todo = {n} THEN "keyed" ELSE "data"
    /\ UNCHANGED <<memvars, now, ret, pa, ecode, st, data, dlen, log, mode, rpc, hist, res>>

\* a commit whose step 5 leaves the log as it is
CommitTruncateKeepsLog ==
    /\ mode \in {"open", "closing"}
    /\ pc = "keyed"
    /\ hist' = [hist EXCEPT !.committed = @ \cup hist.flushing, !.flushing = {}]
    /\ pc' = "truncated"
    /\ UNCHANGED <<memvars, now, ret, pa, ecode, st, data, dlen, key, log, wk, mode, rpc, res>>

\* commit step 5: truncate the log, sync
CommitTruncate ==
    /\ mode \in {"open", "closing"}
    /\ pc = "keyed"
    /\ log' = NoLog
    /\ hist' = [hist EXCEPT !.committed = @ \cup hist.flushing, !.flushing = {}]
    /\ pc' = "truncated"
    /\ UNCHANGED <<memvars, now, ret, pa, ecode, st, data, dlen, key, wk, mode, rpc, res>>

\* commit step 6: clear p0 and its arena
CommitClear ==
    /\ mode \in {"open", "closing"}
    /\ pc = "truncated"
    /\ SetMem(CacheClear(Mem, 0))
    /\ pc' = "idle"
    /\ wk' = NoWork
    /\ hist' = [hist EXCEPT !.pre = NoFiles]
    /\ UNCHANGED <<now, ret, pa, ecode, st, data, dlen, key, log, mode, rpc, res>>

\* a commit phase fails with error e: the worker stores e in the async-error
\* slot and stops; the files stay as the phases so far left them
CommitFail(e) ==
    /\ mode \in {"open", "closing"}
    /\ pc = FailsAt(e)
    /\ ecode = "none"
    /\ ecode' = e
    /\ pc' = "failed"
    /\ UNCHANGED <<memvars, now, ret, pa, st, data, dlen, key, log, wk, mode, rpc, hist, res>>

\* what a process of the store holds in memory, as at its start
FreshMem ==
    /\ elem' = <<>>
    /\ cache' = [c \in Caches |-> NewCache(now)]
    /\ blob' = <<>>
    /\ regions' = {}

\* close: no more inserts; the worker flushes what is pending
Close ==
    /\ mode = "open"
    /\ mode' = "closing"
    /\ res' = NoRes
    /\ UNCHANGED <<memvars, now, ret, pa, ecode, st, data, dlen, key, log, pc, wk, rpc, hist>>

\* close returns: the final commit has flushed everything and cut the log
CloseDone ==
    /\ mode = "closing"
    /\ pc = "idle"
    /\ cache[1].map = <<>>
    /\ mode' = "closed"
    /\ FreshMem
    /\ UNCHANGED <<now, ret, pa, ecode, st, data, dlen, key, log, pc, wk, rpc, hist, res>>

\* the process dies: memory (caches, the data writer's buffer) is lost, the
\* files stay as written
Crash ==
    /\ mode \in {"open", "closing", "recovering"}
    /\ FreshMem
    /\ data' = SubSeq(data, 1, dlen)
    /\ st' = [buckets |-> 0, modulus |-> 0, items |-> 0]
    /\ pc' = "idle"
    /\ wk' = NoWork
    /\ rpc' = "none"
    /\ mode' = "crashed"
    /\ hist' = IF mode = "recovering" THEN hist
               ELSE [hist EXCEPT !.ok = Restrict(@, hist.committed), !.flushing = {},
                                 !.atcrash = [data |-> SubSeq(data, 1, dlen),
                                              key |-> key, log |-> log],
                                 !.dirty = {}, !.pre = NoFiles]
    /\ res' = NoRes
    /\ ecode' = "none"
    /\ UNCHANGED <<now, ret, pa, dlen, key, log>>

\* recover, step 1: nothing to do on an empty log
RecoverStart ==
    /\ mode = "crashed"
    /\ mode' = IF LogEmpty(log) THEN "recovered" ELSE "recovering"
    /\ rpc' = IF LogEmpty(log) THEN "none" ELSE RecoverOrder[1]
    /\ UNCHANGED <<memvars, now, ret, pa, ecode, st, data, dlen, key, log, pc, wk, hist, res>>

IndexOf(q, x) == CHOOSE j \in 1 .. Len(q) : q[j] = x

\* recover, one of steps 4 to 7
RecoverStep ==
    /\ mode = "recovering"
    /\ LET f == RecoverApply(Files, rpc)
           j == IndexOf(RecoverOrder, rpc)
       IN  /\ data' = f.data
           /\ dlen' = Len(f.data)
           /\ key' = f.key
           /\ log' = f.log
           /\ rpc' = IF j = Len(RecoverOrder) THEN "none" ELSE RecoverOrder[j + 1]
           /\ mode' = IF j = Len(RecoverOrder) THEN "recovered" ELSE "recovering"
    /\ UNCHANGED <<memvars, now, ret, pa, ecode, st, pc, wk, hist, res>>

\* open: refused while the log is not empty
Open ==
    /\ mode \in {"recovered", "closed"}
    /\ LogEmpty(log)
    /\ st' = OpenState(key, data)
    /\ FreshMem
    /\ mode' = "open"
    /\ res' = NoRes
    /\ hist' = [hist EXCEPT !.atcrash = NoFiles]
    /\ UNCHANGED <<now, ret, pa, ecode, data, dlen, key, log, pc, wk, rpc>>

Next ==
    \/ \E k \in Keys : Insert(k)
    \/ CommitSwap
    \/ CommitLog
    \/ CommitData
    \/ \E n \in wk.todo : CommitKey(n)
    \/ CommitTruncate
    \/ CommitClear
    \/ \E e \in ErrorKinds : CommitFail(e)
    \/ Close
    \/ CloseDone
    \/ Crash
    \/ RecoverStart
    \/ RecoverStep
    \/ Open

Spec == Init /\ [][Next]_vars

\* ------------------------------------------------------------------ store: claims
\* what fetch(k) can return in the running store
FetchNow(k) == Fetch(Mem, data, key, st, k)

\* what fetch(k) can return once the files at hand are opened
FetchOpened(k) == Fetch(Mem, data, key, OpenState(key, data), k)

\* C1: after a crash at any point and a recover, fetch hits exactly the keys
\* of the batches whose commit had cut the log before the crash, with their
\* values, and misses every other key
C1_RecoveredIsCommitted ==
    mode = "recovered" =>
        \A k \in Keys :
            FetchOpened(k) = IF k \in hist.committed THEN {Hit(hist.ok[k])} ELSE {Miss}

\* C2: in a running store every key whose insert returned ok is a hit with
\* the inserted value, wherever the commit worker stands
C2_InsertedIsFetched ==
    mode \in {"open", "closing"} =>
        \A k \in DOMAIN hist.ok : FetchNow(k) = {Hit(hist.ok[k])}

\* C3: every committed insert (k, v) is fetched as v, after any further
\* inserts, spills, splits and commits
C3_CommittedPersists ==
    mode \in {"open", "closing"} =>
        \A k \in hist.committed : FetchNow(k) = {Hit(hist.ok[k])}

\* C4: a second insert of a key returns key_exists and writes nothing
C4_InsertOnce ==
    (res.op = "insert" /\ res.dup) => (res.r = "key_exists" /\ ~res.wrote)

\* the running store at rest: no commit under way, nothing pending
Quiescent ==
    /\ mode \in {"open", "closing"}
    /\ pc = "idle"
    /\ \A c \in Caches : cache[c].map = <<>>

\* C10: every entry of key-file bucket i and of the spills of i's chain has
\* linear_hash_index(hash) = i under the current buckets and modulus
C10_EntriesInTheirBucket ==
    Quiescent =>
        \A i \in 1 .. Len(key) :
            \A e \in SeqSet(ChainEntries(key[i], data)) :
                LinearHashIndex(e.h, st.buckets, st.modulus) = i - 1

\* C8: recover, also when interrupted by crashes and rerun, ends in the files
\* one uninterrupted recover gives; a further recover changes nothing; on an
\* empty log the data and key files stay as they were
C8_RecoverIdempotent ==
    mode = "recovered" =>
        /\ Files = Recover(hist.atcrash)
        /\ Recover(Files) = Files
        /\ LogEmpty(hist.atcrash.log) =>
               (data = hist.atcrash.data /\ key = hist.atcrash.key)

\* a recover that had pre-images to write back and records to cut has ended
C8_Witness ==
    /\ mode = "recovered"
    /\ ~LogEmpty(hist.atcrash.log)
    /\ key # hist.atcrash.key
    /\ data # hist.atcrash.data

\* C9 as stated: the log is empty if and only if the database was cleanly
\* closed
C9_LogEmptyIffClosed == LogEmpty(log) <=> mode = "closed"

\* C9, amended: after close has returned the log is empty
C9_ClosedHasEmptyLog == mode = "closed" => LogEmpty(log)

\* a store closed after commits that wrote records and grew the key file
C9_Witness ==
    /\ mode = "closed"
    /\ data # <<>>
    /\ Len(key) > 1
    /\ hist.committed # {}

\* the store runs (not recovering) and its commit stands at one of P
InCommit(P) == mode \in {"open", "closing"} /\ pc \in P

\* C11: once a background commit has failed the async-error slot stays set
\* while the store runs: every step leaves the slot as it is and the files,
\* the pending data, the state record and the caches unwritten, and every
\* insert returns the error of the slot and writes nothing
C11_StickyError ==
    [][(ecode # "none" /\ mode \in {"open", "closing"} /\ mode' \in {"open", "closing"}) =>
           /\ ecode' = ecode
           /\ UNCHANGED <<data, dlen, key, log, st, memvars>>
           /\ (\E k \in Keys : Insert(k)) =>
                  (res'.op = "insert" /\ res'.r = ecode /\ ~res'.wrote)]_vars

\* an insert was refused with the error of a failed commit while writes of
\* the failed batch and later ones are pending
C11_Witness ==
    /\ mode = "open"
    /\ ecode \in ErrorKinds
    /\ res.op = "insert"
    /\ res.r = ecode
    /\ ~res.wrote
    /\ cache[0].map # <<>>
    /\ cache[1].map # <<>>

\* the files as a crash now leaves them
CrashFiles == [data |-> SubSeq(data, 1, dlen), key |-> key, log |-> log]

\* recover on f gives the files as they were before the commit under way
RestoresPreCommit(f) ==
    /\ Recover(f).key = hist.pre.key
    /\ Recover(f).data = hist.pre.data
    /\ LogEmpty(Recover(f).log)

\* the files hold the whole batch of the commit under way: every pending data
\* record and every bucket of p0, in a key file of the new bucket count
HoldsBatch(f) ==
    /\ Len(f.data) = wk.dsnap
    /\ Len(f.key) = wk.bafter
    /\ \A n \in DOMAIN cache[0].map : f.key[n + 1] = Deref(Mem, cache[0].map[n])

PendingAreDirty ==
    mode \in {"open", "closing"} => DOMAIN cache[1].map = hist.dirty

\* the flushed cache is empty whenever no commit is under way
FlushedEmptyWhenIdle ==
    (mode \in {"open", "closing"} /\ pc = "idle") => cache[0].map = <<>>

=============================================================================
